---- MODULE Spec2Model ----
(***************************************************************************)
(* Model of the jpeg-encoder container core:                               *)
(*   - src/src/maxsize.rs : max_output_size, the worst-case size bound     *)
(*   - src/src/writer.rs  : JfifWriter, the marker / segment writer        *)
(*                                                                         *)
(* TLC integers are 32 bit, the size bound is a u64.  A u64 is therefore   *)
(* kept as 8 little-endian limbs of 8 bits, and its arithmetic wraps at    *)
(* 2^64 the way the machine arithmetic does.                               *)
(***************************************************************************)
EXTENDS Integers, Sequences, FiniteSets, TLC

VARIABLES base, sink, hist, markers, size

vars == <<base, sink, hist, markers, size>>

(***************************************************************************)
(* Bounds of the model.                                                    *)
(***************************************************************************)
\* image dimensions 0..MaxDim are tried besides the MCU boundary values
MaxDim == 1
\* the number of writer operations in a run
MaxCalls == 2
\* Huffman tables of 0..MaxValues values
MaxValues == 2
\* segment payloads of 0..MaxLen bytes
MaxLen == 2

----------------------------------------------------------------------------
(***************************************************************************)
(* Fixed-width unsigned arithmetic on limbs.                               *)
(***************************************************************************)

\* the limbs of n (0 <= n < 2^31), zero-extended to nl limbs: `n as u64`
Limbs(n, nl) ==
    [i \in 1..nl |->
        IF i = 1 THEN n % 256
        ELSE IF i = 2 THEN (n \div 256) % 256
        ELSE IF i = 3 THEN (n \div 65536) % 256
        ELSE IF i = 4 THEN n \div 16777216
        ELSE 0]

RECURSIVE Carry(_, _, _)
\* propagate the carries of the column sums; the carry out of the top limb
\* is dropped (wrapping arithmetic)
Carry(cols, i, c) ==
    IF i > Len(cols) THEN <<>>
    ELSE <<(cols[i] + c) % 256>> \o Carry(cols, i + 1, (cols[i] + c) \div 256)

RECURSIVE ColSum(_, _, _, _)
ColSum(a, b, k, i) ==
    IF i > k THEN 0 ELSE a[i] * b[k + 1 - i] + ColSum(a, b, k, i + 1)

LimbAdd(a, b) == Carry([i \in 1..Len(a) |-> a[i] + b[i]], 1, 0)

LimbMul(a, b) == Carry([k \in 1..Len(a) |-> ColSum(a, b, k, 1)], 1, 0)

\* u64 values and operators
U64(n) == Limbs(n, 8)
U64Add(a, b) == LimbAdd(a, b)
U64Mul(a, b) == LimbMul(a, b)

RECURSIVE LimbLeqFrom(_, _, _)
LimbLeqFrom(a, b, i) ==
    IF i = 0 THEN TRUE
    ELSE IF a[i] < b[i] THEN TRUE
    ELSE IF a[i] > b[i] THEN FALSE
    ELSE LimbLeqFrom(a, b, i - 1)

\* a <= b on limbs of the same width
LimbLeq(a, b) == LimbLeqFrom(a, b, Len(a))

----------------------------------------------------------------------------
(***************************************************************************)
(* maxsize.rs                                                              *)
(***************************************************************************)

\* the SamplingFactor variants the size bound is exercised with
SamplingFactors == {"R_4_4_4", "R_4_2_2", "R_4_2_0", "R_4_1_1", "Gray"}

\* SamplingFactor::mcu_size(): the MCU footprint <<mcu_width, mcu_height>>
mcu_size(f) ==
    CASE f = "R_4_4_4" -> <<8, 8>>
      [] f = "R_4_2_2" -> <<16, 8>>
      [] f = "R_4_2_0" -> <<16, 16>>
      [] f = "R_4_1_1" -> <<32, 8>>
      [] f = "Gray"    -> <<8, 8>>

\* mutant: the remainder itself is added instead of what is missing to the
\* next multiple
next_multiple_of_addrem(x, rhs) ==
    LET r == x % rhs IN IF r = 0 THEN x ELSE x + r

\* u64::next_multiple_of: `match self % rhs { 0 => self, r => self + (rhs - r) }`
\* (self <= 65535 and rhs <= 32 here, so the u64 addition cannot wrap)
next_multiple_of(x, rhs) ==
    LET r == x % rhs IN IF r = 0 THEN x ELSE x + (rhs - r)

\* the chroma term of max_output_size (maxsize.rs line 66)
chroma_term(f) ==
    LET mcu == mcu_size(f) IN (4 * 64) \div (mcu[1] * mcu[2])

\* mutant: the padded area is scaled by (1 + chroma)
max_output_size_scale1(width, height, f) ==
    LET mcu == mcu_size(f)
        padded_w == next_multiple_of(width, mcu[1])
        padded_h == next_multiple_of(height, mcu[2])
        chroma == chroma_term(f)
    IN  U64Add(U64Mul(U64Mul(U64(padded_w), U64(padded_h)), U64(1 + chroma)),
               U64(2048))

max_output_size(width, height, f) ==
    LET mcu == mcu_size(f)
        padded_w == next_multiple_of(width, mcu[1])
        padded_h == next_multiple_of(height, mcu[2])
        chroma == chroma_term(f)
    IN  U64Add(U64Mul(U64Mul(U64(padded_w), U64(padded_h)), U64(2 + chroma)),
               U64(2048))

\* the widths and heights tried: 0..MaxDim, and the values around the MCU
\* sizes and the largest u16
Dims == (0..MaxDim) \cup {8, 9, 16, 17, 32, 65535}

\* one call of max_output_size; the call and what it computed are recorded
SizeCall(w, h, f) ==
    /\ size' = <<[width |-> w, height |-> h, factor |-> f,
                  chroma |-> chroma_term(f),
                  result |-> max_output_size(w, h, f)]>>
    /\ UNCHANGED <<base, sink, hist, markers>>

----------------------------------------------------------------------------
(***************************************************************************)
(* writer.rs: the sink                                                     *)
(*                                                                         *)
(* The writer owns a sink W: Write and reaches it only through write_all.  *)
(* While an operation runs, its state is a record                          *)
(*   w   : the bytes the sink holds                                        *)
(*   res : "Ok", or the error / panic the operation ended with             *)
(*   n   : the number of write_all calls issued to the sink so far         *)
(*   mk  : the positions in w of the marker codes write_marker emitted     *)
(* What the sink does is an input of the operation: beh.failAt is the      *)
(* write_all call that fails (0: none), beh.part the number of bytes the   *)
(* sink took of that call's buffer before it failed, beh.err the error.    *)
(***************************************************************************)

Min(a, b) == IF a < b THEN a ELSE b

\* the errors a sink reports
IoErrors == {"WriteZero", "Other"}

\* a sink that accepts every byte
NoFail == [failAt |-> 0, part |-> 0, err |-> "Ok"]

\* the sinks that fail one of the first nw write_all calls
Failing(nw) ==
    {[failAt |-> k, part |-> p, err |-> e] : k \in 1..nw, p \in 0..1, e \in IoErrors}

\* the writer over the sink as it is now, before an operation starts
Start == [w |-> sink, res |-> "Ok", n |-> 0, mk |-> {}]

\* W::write_all(buf): all of buf is appended, or the call fails after the
\* sink took a proper prefix of buf (nothing of an empty or one-byte buf)
write_all(st, buf, beh) ==
    IF st.n + 1 = beh.failAt
    THEN [st EXCEPT !.w = @ \o SubSeq(buf, 1, Min(beh.part, Len(buf) - 1)),
                    !.res = beh.err,
                    !.n = @ + 1]
    ELSE [st EXCEPT !.w = @ \o buf, !.n = @ + 1]

\* mutant: an error is dropped and the operation goes on
QuestionMarkIgnore(s, t) == t

\* the `?` operator: on an error the function returns it at once, and what
\* follows (t) is not run
QuestionMark(s, t) == IF s.res = "Ok" THEN t ELSE s

\* a panic: the operation ends here
Panic(st, what) == [st EXCEPT !.res = what]

----------------------------------------------------------------------------
(***************************************************************************)
(* writer.rs: integer conversions                                          *)
(***************************************************************************)

\* `x as u16` of a usize: the low 16 bits
AsU16(x) == x % 65536

\* u16 + u16.  With overflow checks (a debug build) an overflow panics,
\* without them (a release build) the sum wraps.
AddU16(a, b, checks) ==
    [v |-> (a + b) % 65536, panics |-> checks /\ a + b > 65535]

\* u16::to_be_bytes
to_be_bytes(v) == <<v \div 256, v % 256>>

----------------------------------------------------------------------------
(***************************************************************************)
(* writer.rs: markers and tables                                           *)
(***************************************************************************)

\* the code of Marker::DHT and of Marker::DQT (0xFFC4, 0xFFDB)
DHT == 196
DQT == 219

\* Marker -> u8.  A marker is <<"SOI">>, <<"EOI">>, <<"COM">>, <<"DHT">>,
\* <<"DQT">> or <<"APP", n>>.
MarkerCode(m) ==
    CASE m[1] = "DHT" -> DHT
      [] m[1] = "DQT" -> DQT
      [] m[1] = "SOI" -> 216
      [] m[1] = "EOI" -> 217
      [] m[1] = "COM" -> 254
      [] m[1] = "APP" -> 224 + m[2]

\* CodingClass as u8: 0 for DC, 1 for AC
ClassCode(class) == IF class = "Dc" THEN 0 ELSE 1

\* ZIGZAG[p + 1] is the natural index of scan position p
ZIGZAG ==
    << 0,  1,  8, 16,  9,  2,  3, 10,
      17, 24, 32, 25, 18, 11,  4,  5,
      12, 19, 26, 33, 40, 48, 41, 34,
      27, 20, 13,  6,  7, 14, 21, 28,
      35, 42, 49, 56, 57, 50, 43, 36,
      29, 22, 15, 23, 30, 37, 44, 51,
      58, 59, 52, 45, 38, 31, 39, 46,
      53, 60, 61, 54, 47, 55, 62, 63>>

----------------------------------------------------------------------------
(***************************************************************************)
(* writer.rs: JfifWriter                                                   *)
(***************************************************************************)

\* JfifWriter::write
write(st, buf, beh) == write_all(st, buf, beh)

\* JfifWriter::write_u8
write_u8(st, value, beh) == write_all(st, <<value>>, beh)

\* JfifWriter::write_u16
write_u16(st, value, beh) == write_all(st, to_be_bytes(value), beh)

\* mutant: the 0xFF prefix is left out
write_marker_noprefix(st, marker, beh) ==
    LET s == write(st, <<MarkerCode(marker)>>, beh)
    IN  IF s.res = "Ok" THEN [s EXCEPT !.mk = @ \cup {Len(s.w)}] ELSE s

\* JfifWriter::write_marker; the position of the marker code is noted
write_marker(st, marker, beh) ==
    LET s == write(st, <<255, MarkerCode(marker)>>, beh)
    IN  IF s.res = "Ok" THEN [s EXCEPT !.mk = @ \cup {Len(s.w)}] ELSE s

\* JfifWriter::write_segment
write_segment(st, marker, data, beh, checks) ==
    LET s1  == write_marker(st, marker, beh)
        len == AddU16(AsU16(Len(data)), 2, checks)
        s2  == QuestionMark(s1, IF len.panics THEN Panic(s1, "Overflow")
                                ELSE write_u16(s1, len.v, beh))
        s3  == QuestionMark(s2, write(s2, data, beh))
    IN  s3

\* mutant: y is written before x
write_header_yx(st, density, beh) ==
    LET s1 == write_marker(st, <<"APP", 0>>, beh)
        s2 == QuestionMark(s1, write_u16(s1, 16, beh))
        s3 == QuestionMark(s2, write(s2, <<74, 70, 73, 70, 0>>, beh))
        s4 == QuestionMark(s3, write(s3, <<1, 2>>, beh))
        unit == CASE density.kind = "None" -> 0
                  [] density.kind = "Inch" -> 1
                  [] density.kind = "Centimeter" -> 2
        x  == IF density.kind = "None" THEN 1 ELSE density.x
        y  == IF density.kind = "None" THEN 1 ELSE density.y
        s5 == QuestionMark(s4, write_u8(s4, unit, beh))
        s6 == QuestionMark(s5, write_u16(s5, y, beh))
        s7 == QuestionMark(s6, write_u16(s6, x, beh))
    IN  QuestionMark(s7, write(s7, <<0, 0>>, beh))

\* JfifWriter::write_header.  b"JFIF\0" is 74, 70, 73, 70, 0.
write_header(st, density, beh) ==
    LET s1 == write_marker(st, <<"APP", 0>>, beh)
        s2 == QuestionMark(s1, write_u16(s1, 16, beh))
        s3 == QuestionMark(s2, write(s2, <<74, 70, 73, 70, 0>>, beh))
        s4 == QuestionMark(s3, write(s3, <<1, 2>>, beh))
        unit == CASE density.kind = "None" -> 0
                  [] density.kind = "Inch" -> 1
                  [] density.kind = "Centimeter" -> 2
        x  == IF density.kind = "None" THEN 1 ELSE density.x
        y  == IF density.kind = "None" THEN 1 ELSE density.y
        s5 == QuestionMark(s4, write_u8(s4, unit, beh))
        s6 == QuestionMark(s5, write_u16(s5, x, beh))
        s7 == QuestionMark(s6, write_u16(s6, y, beh))
    IN  QuestionMark(s7, write(s7, <<0, 0>>, beh))

\* mutant: destinations up to 15 (all a nibble holds) pass
destination_ok_nibble(destination) == destination < 16

\* the assertion of both table emitters: `assert!(destination < 4, ..)`
destination_ok(destination) == destination < 4

\* mutant: the values are written before the length counts
write_huffman_segment_swapped(st, class, destination, table, beh, checks) ==
    IF ~destination_ok(destination) THEN Panic(st, "BadDestination")
    ELSE
    LET s1  == write_marker(st, <<"DHT">>, beh)
        len == AddU16(2 + 1 + 16, AsU16(Len(table.values)), checks)
        s2  == QuestionMark(s1, IF len.panics THEN Panic(s1, "Overflow")
                                ELSE write_u16(s1, len.v, beh))
        s3  == QuestionMark(s2,
                 write_u8(s2, ((ClassCode(class) * 16) % 256) + destination, beh))
        s4  == QuestionMark(s3, write(s3, table.values, beh))
        s5  == QuestionMark(s4, write(s4, table.length, beh))
    IN  s5

\* JfifWriter::write_huffman_segment.  `(class as u8) << 4 | destination`:
\* the shift leaves the low nibble zero and destination < 4, so the bitwise
\* or is a sum.
write_huffman_segment(st, class, destination, table, beh, checks) ==
    IF ~destination_ok(destination) THEN Panic(st, "BadDestination")
    ELSE
    LET s1  == write_marker(st, <<"DHT">>, beh)
        len == AddU16(2 + 1 + 16, AsU16(Len(table.values)), checks)
        s2  == QuestionMark(s1, IF len.panics THEN Panic(s1, "Overflow")
                                ELSE write_u16(s1, len.v, beh))
        s3  == QuestionMark(s2,
                 write_u8(s2, ((ClassCode(class) * 16) % 256) + destination, beh))
        s4  == QuestionMark(s3, write(s3, table.length, beh))
        s5  == QuestionMark(s4, write(s4, table.values, beh))
    IN  s5

RECURSIVE write_zigzag(_, _, _, _, _)
\* the loop `for &v in &ZIGZAG { self.write_u8(table.get(v as usize))?; }`
\* over the entries lo..hi of ZIGZAG, in order: the entries lo..mid, and if
\* none of them failed the entries mid+1..hi (the range is halved only to
\* keep the evaluation shallow)
write_zigzag(st, table, lo, hi, beh) ==
    IF lo = hi THEN write_u8(st, table[ZIGZAG[lo]], beh)
    ELSE LET mid == (lo + hi) \div 2
             s   == write_zigzag(st, table, lo, mid, beh)
         IN  QuestionMark(s, write_zigzag(s, table, mid + 1, hi, beh))

RECURSIVE write_natural(_, _, _, _, _)
write_natural(st, table, lo, hi, beh) ==
    IF lo = hi THEN write_u8(st, table[lo - 1], beh)
    ELSE LET mid == (lo + hi) \div 2
             s   == write_natural(st, table, lo, mid, beh)
         IN  QuestionMark(s, write_natural(s, table, mid + 1, hi, beh))

\* mutant: the table is written in its natural order
write_quantization_segment_natural(st, destination, table, beh) ==
    IF ~destination_ok(destination) THEN Panic(st, "BadDestination")
    ELSE
    LET s1 == write_marker(st, <<"DQT">>, beh)
        s2 == QuestionMark(s1, write_u16(s1, 2 + 1 + 64, beh))
        s3 == QuestionMark(s2, write_u8(s2, destination, beh))
    IN  QuestionMark(s3, write_natural(s3, table, 1, 64, beh))

\* JfifWriter::write_quantization_segment
write_quantization_segment(st, destination, table, beh) ==
    IF ~destination_ok(destination) THEN Panic(st, "BadDestination")
    ELSE
    LET s1 == write_marker(st, <<"DQT">>, beh)
        s2 == QuestionMark(s1, write_u16(s1, 2 + 1 + 64, beh))
        s3 == QuestionMark(s2, write_u8(s2, destination, beh))
    IN  QuestionMark(s3, write_zigzag(s3, table, 1, Len(ZIGZAG), beh))

----------------------------------------------------------------------------
(***************************************************************************)
(* The state and the operations on it.                                     *)
(*   base    : what the sink held when the writer was constructed          *)
(*   sink    : what the sink holds                                         *)
(*   hist    : the writer operations so far, each with its arguments, the  *)
(*             sink's behaviour, the sink's length before it (pre), its    *)
(*             result (res) and the number of writes it issued (n)         *)
(*   markers : the positions in sink of the marker codes emitted           *)
(*   size    : the last call of max_output_size, if any                    *)
(* The caller stops at the first operation that fails.                     *)
(***************************************************************************)

\* a payload of n bytes
Payload(n, seed) == [i \in 1..n |-> (37 * i + seed) % 256]

Running == IF hist = <<>> THEN TRUE ELSE hist[Len(hist)].res = "Ok"

Record(op, arg, beh, st) ==
    /\ Running
    /\ sink' = st.w
    /\ hist' = Append(hist, [op |-> op, arg |-> arg, beh |-> beh,
                             pre |-> Len(sink), res |-> st.res, n |-> st.n])
    /\ markers' = markers \cup st.mk
    /\ UNCHANGED <<base, size>>

Write(buf, beh) ==
    Record("write", [buf |-> buf], beh, write(Start, buf, beh))

WriteU8(value, beh) ==
    Record("write_u8", [value |-> value], beh, write_u8(Start, value, beh))

WriteU16(value, beh) ==
    Record("write_u16", [value |-> value], beh, write_u16(Start, value, beh))

WriteMarker(marker, beh) ==
    Record("write_marker", [marker |-> marker], beh,
           write_marker(Start, marker, beh))

\* the payload of len bytes is Payload(len, seed)
WriteSegment(marker, len, seed, beh, checks) ==
    Record("write_segment", [marker |-> marker, len |-> len, seed |-> seed], beh,
           write_segment(Start, marker, Payload(len, seed), beh, checks))

WriteHeader(density, beh) ==
    Record("write_header", [density |-> density], beh,
           write_header(Start, density, beh))

WriteHuffmanSegment(class, destination, table, beh, checks) ==
    Record("write_huffman_segment",
           [class |-> class, destination |-> destination, table |-> table], beh,
           write_huffman_segment(Start, class, destination, table, beh, checks))

WriteQuantizationSegment(destination, table, beh) ==
    Record("write_quantization_segment",
           [destination |-> destination, table |-> table], beh,
           write_quantization_segment(Start, destination, table, beh))

----------------------------------------------------------------------------
(***************************************************************************)
(* The inputs tried.                                                       *)
(***************************************************************************)

Bufs == {<<>>, <<0>>, <<255, 216>>}
U8s == {0, 255}
U16s == {0, 258, 65535}
Markers == {<<"SOI">>, <<"EOI">>, <<"APP", 1>>, <<"DQT">>}
SegMarkers == {<<"COM">>, <<"APP", 1>>}


\* the payload lengths around the largest a 16-bit length field can state
LimitLens == {65533, 65534, 65535, 65536, 65537}

DensityValues == {258, 65535}
Densities ==
    {[kind |-> "None"]}
    \cup {[kind |-> k, x |-> x, y |-> y] :
             k \in {"Inch", "Centimeter"}, x \in DensityValues, y \in DensityValues}

CodingClasses == {"Dc", "Ac"}

\* destinations: the four valid ones, and invalid ones up to the largest u8
Destinations == (0..3) \cup {4, 15, 16, 255}

\* a Huffman table of n <= 15 values: one code of each length 2..n+1, the
\* values not in increasing order
HuffmanTable(n) ==
    [length |-> [k \in 1..16 |-> IF 2 <= k /\ k <= n + 1 THEN 1 ELSE 0],
     values |-> [i \in 1..n |-> (251 * i) % 256]]
\* a table of all 256 byte values: 1 code of 15 bits and 255 of 16
FullHuffmanTable ==
    [length |-> [k \in 1..16 |-> IF k = 15 THEN 1 ELSE IF k = 16 THEN 255 ELSE 0],
     values |-> [i \in 1..256 |-> (251 * i) % 256]]
HuffmanTables == {HuffmanTable(n) : n \in 0..MaxValues} \cup {FullHuffmanTable}

\* a quantization table, by natural index 0..63; its 64 values differ
QuantizationTable(a) == [i \in 0..63 |-> ((a * i) % 255) + 1]
QuantizationTables == {QuantizationTable(1), QuantizationTable(3)}

----------------------------------------------------------------------------
Init ==
    /\ base \in {<<>>, <<255, 216>>}
    /\ sink = base
    /\ hist = <<>>
    /\ markers = {}
    /\ size = <<>>

\* the writer over a sink that accepts every byte
Next ==
    /\ Len(hist) < MaxCalls
    /\ \/ \E buf \in Bufs : Write(buf, NoFail)
       \/ \E v \in U8s : WriteU8(v, NoFail)
       \/ \E v \in U16s : WriteU16(v, NoFail)
       \/ \E m \in Markers : WriteMarker(m, NoFail)
       \/ \E m \in SegMarkers, n \in 0..MaxLen, checks \in BOOLEAN :
             WriteSegment(m, n, 0, NoFail, checks)
       \/ \E d \in Densities : WriteHeader(d, NoFail)
       \/ \E c \in CodingClasses, dest \in Destinations, t \in HuffmanTables,
             checks \in BOOLEAN :
             WriteHuffmanSegment(c, dest, t, NoFail, checks)
       \/ \E dest \in Destinations, t \in QuantizationTables :
             WriteQuantizationSegment(dest, t, NoFail)

Spec == Init /\ [][Next]_vars

\* one operation of the writer over a sink that may fail
NextFail ==
    /\ hist = <<>>
    /\ \/ \E buf \in Bufs, beh \in Failing(1) \cup {NoFail} : Write(buf, beh)
       \/ \E v \in U8s, beh \in Failing(1) \cup {NoFail} : WriteU8(v, beh)
       \/ \E v \in U16s, beh \in Failing(1) \cup {NoFail} : WriteU16(v, beh)
       \/ \E m \in Markers, beh \in Failing(1) \cup {NoFail} : WriteMarker(m, beh)
       \/ \E m \in SegMarkers, n \in 0..MaxLen, beh \in Failing(3) \cup {NoFail},
             checks \in BOOLEAN :
             WriteSegment(m, n, 0, beh, checks)
       \/ \E d \in Densities, beh \in Failing(8) \cup {NoFail} :
             WriteHeader(d, beh)
       \/ \E c \in CodingClasses, dest \in 0..3, t \in HuffmanTables,
             beh \in Failing(5) \cup {NoFail}, checks \in BOOLEAN :
             WriteHuffmanSegment(c, dest, t, beh, checks)
       \/ \E dest \in 0..3, t \in QuantizationTables,
             beh \in Failing(67) \cup {NoFail} :
             WriteQuantizationSegment(dest, t, beh)

SpecFail == Init /\ [][NextFail]_vars

\* one write_segment with a payload around the limit of the length field
NextSeg ==
    /\ hist = <<>>
    /\ \E m \in SegMarkers \cup {<<"APP", 2>>}, n \in (0..MaxLen) \cup LimitLens,
          seed \in {0, 1}, checks \in BOOLEAN :
          WriteSegment(m, n, seed, NoFail, checks)

SpecSeg == Init /\ [][NextSeg]_vars

\* calls of max_output_size
NextSize == \E w \in Dims, h \in Dims, f \in SamplingFactors : SizeCall(w, h, f)

SpecSize == Init /\ [][NextSize]_vars

----------------------------------------------------------------------------
(***************************************************************************)
(* Properties: max_output_size                                             *)
(***************************************************************************)

\* natural numbers too large for TLC's integers, as 16 limbs: none of the
\* values below comes near 2^128, so their arithmetic never wraps
Wide(n) == Limbs(n, 16)

\* a u64 as such a number
Widen(u) == u \o [i \in 1..8 |-> 0]

RECURSIVE DecFrom(_, _, _)
DecFrom(digits, i, acc) ==
    IF i > Len(digits) THEN acc
    ELSE DecFrom(digits, i + 1, LimbAdd(LimbMul(acc, Wide(10)), Wide(digits[i])))

\* the number with these decimal digits
Dec(digits) == DecFrom(digits, 1, Wide(0))

\* the smallest multiple of m that is >= x
LeastMultiple(m, x) == CHOOSE p \in x..(x + m - 1) : p % m = 0

\* P_w * P_h * k + 2048
PaddedBound(w, h, f, k) ==
    LET mcu == mcu_size(f)
    IN  LimbAdd(LimbMul(LimbMul(Wide(LeastMultiple(mcu[1], w)),
                                Wide(LeastMultiple(mcu[2], h))),
                        Wide(k)),
                Wide(2048))

SizeIs(c, w, h, f, digits) ==
    (c.width = w /\ c.height = h /\ c.factor = f) => Widen(c.result) = Dec(digits)

C7_GrayChromaZero ==
    (size # <<>> /\ size[1].factor = "Gray") =>
        /\ size[1].chroma = 0
        /\ Widen(size[1].result) =
             PaddedBound(size[1].width, size[1].height, "Gray", 2)

\* C8: a call with the same sampling factor, one dimension the same and the
\* other not smaller yields a bound that is not smaller; and the bound is
\* 2048 whenever the width or the height is 0.
C8_Monotone ==
    [][ size' # <<>> =>
          /\ (size'[1].width = 0 \/ size'[1].height = 0)
                => size'[1].result = U64(2048)
          /\ LimbLeq(U64(2048), size'[1].result)
          /\ (/\ size # <<>>
              /\ size[1].factor = size'[1].factor
              /\ \/ size[1].width <= size'[1].width
                    /\ size[1].height = size'[1].height
                 \/ size[1].width = size'[1].width
                    /\ size[1].height <= size'[1].height)
                => LimbLeq(size[1].result, size'[1].result) ]_vars

\* a zero-width image of the largest height has been sized
C8_Witness ==
    /\ size # <<>>
    /\ size[1].width = 0 /\ size[1].height = 65535
    /\ size[1].result = U64(2048)

----------------------------------------------------------------------------
(***************************************************************************)
(* Properties: JfifWriter                                                  *)
(***************************************************************************)

\* the last operation, and the bytes it appended
Last == hist[Len(hist)]
Out == SubSeq(sink, Last.pre + 1, Len(sink))

LastIs(op) == IF hist = <<>> THEN FALSE ELSE Last.op = op

\* a 16-bit value, high byte first
BigEndian(v) == <<v \div 256, v % 256>>

RECURSIVE Flat(_, _)
\* the concatenation of the first k sequences of ss
Flat(ss, k) == IF k = 0 THEN <<>> ELSE Flat(ss, k - 1) \o ss[k]

\* the JFIF header's unit byte and densities
UnitByte(d) ==
    CASE d.kind = "None" -> 0 [] d.kind = "Inch" -> 1 [] d.kind = "Centimeter" -> 2
DensityX(d) == IF d.kind = "None" THEN 1 ELSE d.x
DensityY(d) == IF d.kind = "None" THEN 1 ELSE d.y

\* the buffers an operation hands to the sink, in order, as the layouts of
\* the segments state them
Buffers(c) ==
    CASE c.op = "write" -> <<c.arg.buf>>
      [] c.op = "write_u8" -> <<<<c.arg.value>>>>
      [] c.op = "write_u16" -> <<BigEndian(c.arg.value)>>
      [] c.op = "write_marker" -> <<<<255, MarkerCode(c.arg.marker)>>>>
      [] c.op = "write_segment" ->
            <<<<255, MarkerCode(c.arg.marker)>>,
              BigEndian(c.arg.len + 2),
              Payload(c.arg.len, c.arg.seed)>>
      [] c.op = "write_header" ->
            <<<<255, 224>>, <<0, 16>>, <<74, 70, 73, 70, 0>>, <<1, 2>>,
              <<UnitByte(c.arg.density)>>,
              BigEndian(DensityX(c.arg.density)),
              BigEndian(DensityY(c.arg.density)),
              <<0, 0>>>>
      [] c.op = "write_huffman_segment" ->
            <<<<255, 196>>,
              BigEndian(19 + Len(c.arg.table.values)),
              <<(IF c.arg.class = "Dc" THEN 0 ELSE 16) + c.arg.destination>>,
              c.arg.table.length,
              c.arg.table.values>>
      [] c.op = "write_quantization_segment" ->
            <<<<255, 219>>, <<0, 67>>, <<c.arg.destination>>>>
            \o [p \in 1..64 |-> <<c.arg.table[ZIGZAG[p]]>>]

\* the bytes of an operation
Bytes(c) == Flat(Buffers(c), Len(Buffers(c)))

\* C2: the length field write_segment writes after the marker is
\* len(data) + 2, for every payload it writes.
C2_SegmentLengthField ==
    (LastIs("write_segment") /\ Last.res = "Ok") =>
        /\ Len(Out) = 4 + Last.arg.len
        /\ Out[3] * 256 + Out[4] = Last.arg.len + 2

\* the scan position of a natural index
ScanPosition(k) == CHOOSE p \in 0..63 : ZIGZAG[p + 1] = k

\* C3: write_quantization_segment with a destination < 4 appends 69 bytes:
\* 0xFF 0xDB, 0x00 0x43, the destination, and the 64 table values, the one
\* at scan position p being the table's value at natural index ZIGZAG[p];
\* ZIGZAG is a permutation of 0..63 and inverting it gives the table back.
C3_DqtLayout ==
    (LastIs("write_quantization_segment") /\ Last.arg.destination < 4) =>
        /\ Last.res = "Ok"
        /\ Len(Out) = 69
        /\ SubSeq(Out, 1, 5) = <<255, 219, 0, 67, Last.arg.destination>>
        /\ Out[5] \div 16 = 0
        /\ \A p \in 0..63 : Out[6 + p] = Last.arg.table[ZIGZAG[p + 1]]
        /\ Len(ZIGZAG) = 64
        /\ {ZIGZAG[p] : p \in 1..64} = 0..63
        /\ \A k \in 0..63 : Out[6 + ScanPosition(k)] = Last.arg.table[k]

\* a table was written to destination 3 behind earlier output
C3_Witness ==
    /\ LastIs("write_quantization_segment")
    /\ Last.arg.destination = 3
    /\ Last.arg.table = QuantizationTable(3)
    /\ Last.res = "Ok"
    /\ Last.pre > 0
    /\ Len(sink) = Last.pre + 69

\* C4: write_huffman_segment with a destination < 4 appends 0xFF 0xC4, the
\* length 19 + n, a byte whose high nibble is the class and whose low nibble
\* is the destination, the 16 length counts and the n values in the table's
\* order; the length is the number of bytes after it plus 2.
C4_DhtLayout ==
    (LastIs("write_huffman_segment") /\ Last.arg.destination < 4) =>
        LET n == Len(Last.arg.table.values)
        IN  /\ Last.res = "Ok"
            /\ Len(Out) = 21 + n
            /\ SubSeq(Out, 1, 2) = <<255, 196>>
            /\ Out[3] * 256 + Out[4] = 19 + n
            /\ Out[5] \div 16 = (IF Last.arg.class = "Dc" THEN 0 ELSE 1)
            /\ Out[5] % 16 = Last.arg.destination
            /\ SubSeq(Out, 6, 21) = Last.arg.table.length
            /\ SubSeq(Out, 22, 21 + n) = Last.arg.table.values
            /\ Out[3] * 256 + Out[4] = (Len(Out) - 4) + 2

\* an AC table of 256 values was written to destination 3 behind earlier
\* output: the length is 0x0113
C4_Witness ==
    /\ LastIs("write_huffman_segment")
    /\ Last.arg.class = "Ac"
    /\ Last.arg.destination = 3
    /\ Len(Last.arg.table.values) = 256
    /\ Last.res = "Ok"
    /\ SubSeq(Out, 3, 5) = <<1, 19, 19>>
    /\ Last.pre > 0

\* C5: a table emitter called with a destination of 4 or more ends in the
\* invalid-destination fault, has issued no write and leaves the sink's
\* content as it was.
C5_BadDestinationFault ==
    [][ (/\ hist' # hist
         /\ hist'[Len(hist')].op \in
               {"write_huffman_segment", "write_quantization_segment"}
         /\ hist'[Len(hist')].arg.destination >= 4)
        => /\ hist'[Len(hist')].res = "BadDestination"
           /\ hist'[Len(hist')].n = 0
           /\ sink' = sink
           /\ markers' = markers ]_vars

\* a quantization table was refused for destination 255, behind earlier
\* output
C5_Witness ==
    /\ LastIs("write_quantization_segment")
    /\ Last.arg.destination = 255
    /\ Last.res = "BadDestination"
    /\ Len(hist) > 1
    /\ Len(sink) > 0

\* C6: write_header appends 18 bytes: 0xFF 0xE0, 0x00 0x10, "JFIF\0",
\* 0x01 0x02, the unit (0 None, 1 Inch, 2 Centimeter), x and y big-endian
\* (1 and 1 for None), 0x00 0x00; the length 16 is the number of bytes
\* after it plus 2.
C6_HeaderLayout ==
    LastIs("write_header") =>
        LET d == Last.arg.density
            x == IF d.kind = "None" THEN 1 ELSE d.x
            y == IF d.kind = "None" THEN 1 ELSE d.y
            unit == CASE d.kind = "None" -> 0
                      [] d.kind = "Inch" -> 1
                      [] d.kind = "Centimeter" -> 2
        IN  /\ Last.res = "Ok"
            /\ Len(Out) = 18
            /\ Out = <<255, 224, 0, 16, 74, 70, 73, 70, 0, 1, 2, unit,
                       x \div 256, x % 256, y \div 256, y % 256, 0, 0>>
            /\ Out[3] * 256 + Out[4] = (Len(Out) - 4) + 2

\* a header with different x and y densities per inch was written
C6_Witness ==
    /\ LastIs("write_header")
    /\ Last.arg.density = [kind |-> "Inch", x |-> 258, y |-> 65535]
    /\ Last.res = "Ok"
    /\ SubSeq(Out, 12, 16) = <<1, 1, 2, 255, 255>>

RECURSIVE Output(_)
\* the bytes of the first k operations, in call order
Output(k) == IF k = 0 THEN <<>> ELSE Output(k - 1) \o Bytes(hist[k])

\* C9: after operations that all succeeded the sink holds what it held
\* before them followed by the bytes of each operation in call order, and
\* every marker code emitted is preceded by 0xFF.
C9_CallOrder ==
    /\ (\A i \in 1..Len(hist) : hist[i].res = "Ok")
          => sink = base \o Output(Len(hist))
    /\ \A p \in markers : p > 1 /\ sink[p - 1] = 255

\* two operations succeeded, a segment and then a marker
C9_Witness ==
    /\ Len(hist) = 2
    /\ hist[1].op = "write_segment" /\ hist[1].res = "Ok"
    /\ hist[2].op = "write_marker" /\ hist[2].res = "Ok"
    /\ hist[1].arg.len > 0
    /\ Len(sink) \in markers

\* the multi-step emitters
Emitters ==
    {"write_segment", "write_header", "write_huffman_segment",
     "write_quantization_segment"}

\* C10: when the sink fails the k-th write of an emitter, the emitter
\* returns the sink's error, has issued exactly k writes, and the sink holds
\* the first k-1 buffers and what it took of the k-th; when no write fails
\* the emitter returns Ok and has issued all its writes.
C10_ErrorPropagation ==
    (IF hist = <<>> THEN FALSE ELSE Last.op \in Emitters) =>
        LET bufs == Buffers(Last)
            k    == Last.beh.failAt
        IN  IF k \in 1..Len(bufs)
            THEN /\ Last.res = Last.beh.err
                 /\ Last.res # "Ok"
                 /\ Last.n = k
                 /\ Out = Flat(bufs, k - 1)
                            \o SubSeq(bufs[k], 1,
                                      Min(Last.beh.part, Len(bufs[k]) - 1))
            ELSE /\ Last.res = "Ok"
                 /\ Last.n = Len(bufs)
                 /\ Out = Flat(bufs, Len(bufs))

\* the sink failed the 40th write of a quantization segment
C10_Witness ==
    /\ LastIs("write_quantization_segment")
    /\ Last.beh.failAt = 40
    /\ Last.res = "WriteZero"
    /\ Last.n = 40
    /\ Len(Out) = 41

====
